---------------------------- MODULE Spec2Model ----------------------------
(***************************************************************************)
(* BrownFi pool math (V1: BrownFiPoolMath, V2: BrownFiV2PoolMath) and the  *)
(* V2 pool state provider.                                                 *)
(*                                                                         *)
(* The quoting functions are pure: a pool state snapshot and a swap intent *)
(* go in, an amount or an Error comes out.  The state machine below draws  *)
(* a pool snapshot in Init and applies one function per action; `call'     *)
(* holds the arguments, the locals and the outcome of the last call.       *)
(*                                                                         *)
(* The code computes on unbounded bigints with fixed-point bases 2^64      *)
(* (V2), 2^128 (V1) and a fee precision of 10^8 (V2).  TLC evaluates on    *)
(* 32-bit integers, so the bases here are 2^Q64Bits, 2^Q128Bits and        *)
(* 10^PrecisionDigits with small exponents; every pool parameter is drawn  *)
(* relative to these bases and every formula is stated in terms of them.   *)
(*                                                                         *)
(* BrownFiV2PoolProvider keeps the pool states the math is given.  Its     *)
(* state is `provider'; `chain' is the factory it reads and the event logs *)
(* on their way to it.  Each async handler is one step.                    *)
(***************************************************************************)
EXTENDS Integers, Sequences, FiniteSets, TLC

VARIABLES pool, call, provider, chain

vars == <<pool, call, provider, chain>>

---------------------------------------------------------------------------
(* Bounds of the model *)

Q64Bits == 3
Q128Bits == 4
PrecisionDigits == 2
MaxReserve == 20
MaxAmount == 20
MaxSqrtValue == 150
MaxRawAmount == 40
DecimalsSpread == 2
NumPairs == 3
MaxLogs == 1

(* Program constants *)

FEE_DENOMINATOR == 10000
DECIMALS == 18

Q128 == 2 ^ Q128Bits
Q64 == 2 ^ Q64Bits
PRECISION == 10 ^ PrecisionDigits

INSUFFICIENT_OUTPUT_AMOUNT_V1 == "BrownFiV1Library: INSUFFICIENT_OUTPUT_AMOUNT"
INSUFFICIENT_LIQUIDITY_V1 == "BrownFiV1Library: INSUFFICIENT_LIQUIDITY"
INSUFFICIENT_INPUT_AMOUNT_V2 == "BrownFiV2Library: INSUFFICIENT_INPUT_AMOUNT"
INSUFFICIENT_OUTPUT_AMOUNT_V2 == "BrownFiV2Library: INSUFFICIENT_OUTPUT_AMOUNT"
INSUFFICIENT_LIQUIDITY_V2 == "BrownFiV2Library: INSUFFICIENT_LIQUIDITY"
MAX_80_PERCENT_OF_RESERVE == "BrownFiV2Library: MAX_80_PERCENT_OF_RESERVE"
(* A bigint division or remainder by 0n throws a RangeError. *)
DIVISION_BY_ZERO == "RangeError: Division by zero"
NoError == "none"

---------------------------------------------------------------------------
(* bigint arithmetic: `/' truncates toward zero, `%' takes the sign of the *)
(* dividend.                                                               *)

Abs(a) == IF a < 0 THEN -a ELSE a

bigDiv(a, b) ==
    IF (a >= 0) = (b > 0) THEN Abs(a) \div Abs(b) ELSE -(Abs(a) \div Abs(b))

bigRem(a, b) == a - b * bigDiv(a, b)

---------------------------------------------------------------------------
(* BrownFiPoolMath (V1) *)

mulDivRoundingUpFloor(a, b, denominator) == bigDiv(a * b, denominator)

mulDivRoundingUp(a, b, denominator) ==
    LET product == a * b
        result == bigDiv(product, denominator)
    IN  IF bigRem(product, denominator) > 0 THEN result + 1 ELSE result

V1Throw(e) ==
    [error |-> e, value |-> 0, amountOutWithFee |-> 0, r |-> 0, avgPrice |-> 0]

BrownFiPoolMath_swapExactInput(p, zeroToOne, amountIn) ==
    [error |-> NoError, value |-> amountIn]

V1InsufficientLiquidityBoth(reserveIn, reserveOut) ==
    reserveIn <= 0 /\ reserveOut <= 0

V1InsufficientLiquidity(reserveIn, reserveOut) ==
    reserveIn <= 0 \/ reserveOut <= 0

V1CapHitLoose(amountOutWithFee, reserveOut) ==
    amountOutWithFee * 10 > reserveOut * 9

V1CapHit(amountOutWithFee, reserveOut) ==
    amountOutWithFee * 10 >= reserveOut * 9

V1AvgPriceMinus(zeroToOne, r, oPrice) ==
    IF zeroToOne
    THEN mulDivRoundingUp(Q128 * 2 - r, Q128, oPrice * 2)
    ELSE mulDivRoundingUp(oPrice, Q128 * 2 - r, Q128 * 2)

(* The average trading price by swap direction. *)
V1AvgPrice(zeroToOne, r, oPrice) ==
    IF zeroToOne
    THEN mulDivRoundingUp(Q128 * 2 + r, Q128, oPrice * 2)
    ELSE mulDivRoundingUp(oPrice, Q128 * 2 + r, Q128 * 2)

BrownFiPoolMath_swapExactOutput(p, zeroToOne, amountOut) ==
    LET reserveIn == IF zeroToOne THEN p.reserve0 ELSE p.reserve1
        reserveOut == IF zeroToOne THEN p.reserve1 ELSE p.reserve0
        oPrice == p.oraclePrice
        kappa == IF p.kappa = 0 THEN Q128 ELSE p.kappa
    IN  IF amountOut <= 0 THEN V1Throw(INSUFFICIENT_OUTPUT_AMOUNT_V1)
        ELSE IF V1InsufficientLiquidity(reserveIn, reserveOut)
        THEN V1Throw(INSUFFICIENT_LIQUIDITY_V1)
        ELSE IF FEE_DENOMINATOR - p.fee = 0 THEN V1Throw(DIVISION_BY_ZERO)
        ELSE
        LET amountOutWithFee ==
                mulDivRoundingUp(amountOut, FEE_DENOMINATOR,
                                 FEE_DENOMINATOR - p.fee)
        IN  IF V1CapHit(amountOutWithFee, reserveOut)
            THEN V1Throw(INSUFFICIENT_OUTPUT_AMOUNT_V1)
            ELSE IF reserveOut - amountOutWithFee = 0
                    \/ (zeroToOne /\ oPrice = 0)
            THEN V1Throw(DIVISION_BY_ZERO)
            ELSE
            LET r == mulDivRoundingUp(kappa, amountOutWithFee,
                                      reserveOut - amountOutWithFee)
                avgPrice == V1AvgPrice(zeroToOne, r, oPrice)
                amountIn == mulDivRoundingUp(amountOutWithFee, avgPrice, Q128)
            IN  [error |-> NoError, value |-> amountIn,
                 amountOutWithFee |-> amountOutWithFee, r |-> r,
                 avgPrice |-> avgPrice]

BrownFiPoolMath_spotPriceWithoutFee(p, zeroToOne) == 1

---------------------------------------------------------------------------
(* BrownFiV2PoolMath (V2) *)

mulDiv(a, b, denominator) == bigDiv(a * b, denominator)

sqrtNextRoundingUp(value, x) == bigDiv(bigDiv(value, x) + x + 1, 2)

(* One Newton step: the next candidate y for the current x. *)
sqrtNext(value, x) == bigDiv(bigDiv(value, x) + x, 2)

RECURSIVE sqrtLoop(_, _, _)
sqrtLoop(value, x, y) ==
    IF y < x THEN sqrtLoop(value, y, sqrtNext(value, y)) ELSE x

sqrt(value) ==
    IF value = 0 THEN 0 ELSE sqrtLoop(value, value, bigDiv(value + 1, 2))

parseRawToDefaultDecimals(tokenDecimals, amount) ==
    IF tokenDecimals > DECIMALS
    THEN bigDiv(amount, 10 ^ (tokenDecimals - DECIMALS))
    ELSE amount * (10 ^ (DECIMALS - tokenDecimals))

parseDefaultDecimalsToRawNoScale(tokenDecimals, amount) ==
    IF tokenDecimals > DECIMALS
    THEN amount * (10 ^ (tokenDecimals - DECIMALS))
    ELSE amount

parseDefaultDecimalsToRaw(tokenDecimals, amount) ==
    IF tokenDecimals > DECIMALS
    THEN amount * (10 ^ (tokenDecimals - DECIMALS))
    ELSE bigDiv(amount, 10 ^ (DECIMALS - tokenDecimals))

getSkewnessPriceUnscaled(priceA, priceB, reserveA, reserveB, lambda) ==
    [error |-> NoError,
     priceA |-> mulDiv(priceA, Q64 - lambda, Q64),
     priceB |-> mulDiv(priceB, Q64 + lambda, Q64)]

getSkewnessPrice(priceA, priceB, reserveA, reserveB, lambda) ==
    IF lambda = 0
    THEN [error |-> NoError, priceA |-> priceA, priceB |-> priceB]
    ELSE
    LET reserveAPrice == reserveA * priceA
        reserveBPrice == reserveB * priceB
        reservePriceDiff ==
            IF reserveAPrice >= reserveBPrice
            THEN reserveAPrice - reserveBPrice
            ELSE reserveBPrice - reserveAPrice
        reservePriceSum == reserveAPrice + reserveBPrice
    IN  IF reservePriceSum = 0
        THEN [error |-> DIVISION_BY_ZERO, priceA |-> 0, priceB |-> 0]
        ELSE
        LET s == mulDiv(reservePriceDiff, lambda, reservePriceSum)
            q64PlusS == Q64 + s
            q64MinusS == Q64 - s
        IN  IF reserveAPrice >= reserveBPrice
            THEN [error |-> NoError,
                  priceA |-> mulDiv(priceA, q64MinusS, Q64),
                  priceB |-> mulDiv(priceB, q64PlusS, Q64)]
            ELSE [error |-> NoError,
                  priceA |-> mulDiv(priceA, q64PlusS, Q64),
                  priceB |-> mulDiv(priceB, q64MinusS, Q64)]

computeLeftNumerator(amountIn, priceIn, priceOut, reserveOut) ==
    priceOut * reserveOut + priceIn * amountIn

computeLeftSqrt(amountIn, priceIn, priceOut, reserveOut) ==
    LET temp ==
            IF mulDiv(amountIn, priceIn, Q64) > mulDiv(reserveOut, priceOut, Q64)
            THEN mulDiv(amountIn, priceIn, Q64) - mulDiv(reserveOut, priceOut, Q64)
            ELSE mulDiv(reserveOut, priceOut, Q64) - mulDiv(amountIn, priceIn, Q64)
    IN  temp * temp

computeRightSqrt(amountIn, priceIn, priceOut, reserveOut, k) ==
    mulDiv(priceIn * priceOut, k, Q64 * Q64) * mulDiv(reserveOut * amountIn, 2, Q64)

(* The skew-adjusted (priceIn, priceOut) of a quote, as both quote         *)
(* functions call getSkewnessPrice: the prices are selected by direction,  *)
(* the reserves are passed as (reserve0, reserve1) in either direction.    *)
quoteSkewnessPrice(p, zeroToOne) ==
    getSkewnessPrice(
        IF zeroToOne THEN p.price0 ELSE p.price1,
        IF zeroToOne THEN p.price1 ELSE p.price0,
        parseRawToDefaultDecimals(p.token0Decimals, p.reserve0),
        parseRawToDefaultDecimals(p.token1Decimals, p.reserve1),
        p.lambda)

V2Throw(e) ==
    [error |-> e, value |-> 0, branch |-> "none", priceIn |-> 0, priceOut |-> 0]

V2IsConstantProductNever(kappa) == FALSE

V2IsConstantProduct(kappa) == kappa = 2 * Q64

BrownFiV2PoolMath_swapExactInput(p, zeroToOne, amountIn) ==
    IF amountIn <= 0 THEN V2Throw(INSUFFICIENT_INPUT_AMOUNT_V2)
    ELSE
    LET reserveOut == IF zeroToOne THEN p.reserve1 ELSE p.reserve0
        tokenInDecimals ==
            IF zeroToOne THEN p.token0Decimals ELSE p.token1Decimals
        tokenOutDecimals ==
            IF zeroToOne THEN p.token1Decimals ELSE p.token0Decimals
    IN  IF reserveOut <= 0 THEN V2Throw(INSUFFICIENT_LIQUIDITY_V2)
        ELSE
        LET parsedAmountIn == parseRawToDefaultDecimals(tokenInDecimals, amountIn)
            parsedReserveOut ==
                parseRawToDefaultDecimals(tokenOutDecimals, reserveOut)
            skew == quoteSkewnessPrice(p, zeroToOne)
            priceIn == skew.priceA
            priceOut == skew.priceB
        IN  IF skew.error # NoError THEN V2Throw(skew.error)
            ELSE IF PRECISION + p.fee = 0 THEN V2Throw(DIVISION_BY_ZERO)
            ELSE
            LET _amountIn == mulDiv(parsedAmountIn, PRECISION, PRECISION + p.fee)
            IN  IF V2IsConstantProduct(p.kappa)
                THEN
                    IF priceOut * parsedReserveOut + _amountIn * priceIn = 0
                    THEN V2Throw(DIVISION_BY_ZERO)
                    ELSE [error |-> NoError,
                          value |->
                              parseDefaultDecimalsToRaw(tokenOutDecimals,
                                  mulDiv(parsedReserveOut * _amountIn, priceIn,
                                         priceOut * parsedReserveOut
                                             + _amountIn * priceIn)),
                          branch |-> "constantProduct",
                          priceIn |-> priceIn, priceOut |-> priceOut]
                ELSE
                    LET leftNumerator ==
                            computeLeftNumerator(_amountIn, priceIn, priceOut,
                                                 parsedReserveOut)
                        leftSqrt ==
                            computeLeftSqrt(_amountIn, priceIn, priceOut,
                                            parsedReserveOut)
                        rightSqrt ==
                            computeRightSqrt(_amountIn, priceIn, priceOut,
                                             parsedReserveOut, p.kappa)
                        denominator == mulDiv(priceOut, 2 * Q64 - p.kappa, Q64)
                        sqrtTerm == sqrt(leftSqrt + rightSqrt)
                    IN  IF denominator = 0 THEN V2Throw(DIVISION_BY_ZERO)
                        ELSE [error |-> NoError,
                              value |->
                                  parseDefaultDecimalsToRaw(tokenOutDecimals,
                                      bigDiv(leftNumerator - Q64 * sqrtTerm,
                                             denominator)),
                              branch |-> "sqrt",
                              priceIn |-> priceIn, priceOut |-> priceOut]

V2CapHitLoose(amountOut, reserveOut) == amountOut * 10 > reserveOut * 8

V2CapHit(amountOut, reserveOut) == amountOut * 10 >= reserveOut * 8

BrownFiV2PoolMath_swapExactOutput(p, zeroToOne, amountOut) ==
    IF amountOut <= 0 THEN V2Throw(INSUFFICIENT_OUTPUT_AMOUNT_V2)
    ELSE
    LET reserveOut == IF zeroToOne THEN p.reserve1 ELSE p.reserve0
        tokenInDecimals ==
            IF zeroToOne THEN p.token0Decimals ELSE p.token1Decimals
        tokenOutDecimals ==
            IF zeroToOne THEN p.token1Decimals ELSE p.token0Decimals
    IN  IF reserveOut <= 0 THEN V2Throw(INSUFFICIENT_LIQUIDITY_V2)
        ELSE IF V2CapHit(amountOut, reserveOut)
        THEN V2Throw(MAX_80_PERCENT_OF_RESERVE)
        ELSE
        LET parsedAmountOut ==
                parseRawToDefaultDecimals(tokenOutDecimals, amountOut)
            parsedReserveOut ==
                parseRawToDefaultDecimals(tokenOutDecimals, reserveOut)
            skew == quoteSkewnessPrice(p, zeroToOne)
            priceIn == skew.priceA
            priceOut == skew.priceB
        IN  IF skew.error # NoError THEN V2Throw(skew.error)
            ELSE IF Q64 * (parsedReserveOut - parsedAmountOut) = 0
            THEN [V2Throw(DIVISION_BY_ZERO) EXCEPT !.branch = "priceImpact"]
            ELSE IF priceIn = 0
            THEN V2Throw(DIVISION_BY_ZERO)
            ELSE
            LET priceImpact ==
                    mulDiv(p.kappa * Q64, parsedAmountOut,
                           Q64 * (parsedReserveOut - parsedAmountOut))
                amountIn0 ==
                    mulDiv(parsedAmountOut,
                           mulDiv(priceOut, priceImpact + Q64 * 2, priceIn),
                           Q64 * 2)
                amountIn == mulDiv(amountIn0, PRECISION + p.fee, PRECISION)
            IN  [error |-> NoError,
                 value |-> parseDefaultDecimalsToRaw(tokenInDecimals, amountIn),
                 branch |-> "priceImpact",
                 priceIn |-> priceIn, priceOut |-> priceOut]

(* The Number ratio is kept as the pair it is the quotient of. *)
BrownFiV2PoolMath_spotPriceWithoutFee(p, zeroToOne) ==
    LET skew ==
            getSkewnessPrice(
                p.price0, p.price1,
                parseRawToDefaultDecimals(p.token0Decimals, p.reserve0),
                parseRawToDefaultDecimals(p.token1Decimals, p.reserve1),
                p.lambda)
    IN  IF skew.error # NoError
        THEN [error |-> skew.error, num |-> 0, den |-> 0,
              price0 |-> 0, price1 |-> 0]
        ELSE [error |-> NoError,
              num |-> IF zeroToOne THEN skew.priceA ELSE skew.priceB,
              den |-> IF zeroToOne THEN skew.priceB ELSE skew.priceA,
              price0 |-> skew.priceA, price1 |-> skew.priceB]

---------------------------------------------------------------------------
(* Pool state snapshots (BrownFiPoolState, BrownFiV2PoolState) and the     *)
(* swap intents the quotes are asked for.                                  *)

Reserves == {0, 10, 15, MaxReserve}
Amounts == 0 .. MaxAmount
Directions == BOOLEAN

(* V1: fee in parts per FEE_DENOMINATOR, kappa and oraclePrice at Q128. *)
PoolsV1 ==
    [variant : {"V1"},
     reserve0 : Reserves, reserve1 : Reserves,
     kappa : {0, Q128 \div 2, Q128, 2 * Q128},
     fee : {0, 2500, 5000},
     oraclePrice : {Q128 \div 2, Q128, 2 * Q128}]

(* V2: fee in parts per PRECISION, kappa, lambda and the prices at Q64.    *)
(* price0 = price1 = 0 is the snapshot getPool builds before the first     *)
(* price update.                                                           *)
TokenDecimals ==
    {<<DECIMALS, DECIMALS>>, <<DECIMALS - 1, DECIMALS + 1>>,
     <<DECIMALS + 1, DECIMALS - 1>>}

PricePairs ==
    ({Q64 \div 2, Q64, 2 * Q64} \X {Q64 \div 2, Q64, 2 * Q64}) \cup {<<0, 0>>}

PoolsV2 ==
    { [variant |-> "V2",
       reserve0 |-> r0, reserve1 |-> r1,
       kappa |-> k, lambda |-> l, fee |-> f,
       token0Decimals |-> d[1], token1Decimals |-> d[2],
       price0 |-> pr[1], price1 |-> pr[2]] :
         r0 \in Reserves, r1 \in Reserves,
         k \in {Q64, 2 * Q64}, l \in {0, Q64 \div 2, Q64},
         f \in {0, PRECISION \div 4},
         d \in TokenDecimals, pr \in PricePairs }

---------------------------------------------------------------------------
(* BrownFiV2PoolProvider: the pool map and the poolAddresses array of the  *)
(* provider, and the chain it reads (the factory's pairs, their reserves,  *)
(* and the contract events not yet delivered to handleEvent).              *)

(* Pair addresses in the order the factory creates them; tokens are        *)
(* numbered so that pair n trades token n against token n + 1.             *)
PairAddresses == 1 .. NumPairs
token0 == [pair \in PairAddresses |-> pair]
token1 == [pair \in PairAddresses |-> pair + 1]

(* The tokens that have a Pyth price feed id. *)
PRICE_FEED_IDS == {1, 2}

(* Reserves a pair reports, and the prices priceOf may answer. *)
SyncReserves == {<<10, 15>>, <<15, 10>>}
OraclePrices == {<<Q64, Q64>>, <<Q64 \div 2, 2 * Q64>>}

(* The factory's address, the address of a log that has none, and what    *)
(* Map.get answers for a missing key.                                      *)
FACTORY_V2_ADDRESS == 0
NoAddress == -1
undefined == [address |-> NoAddress]

getPool(ch, pair) ==
    [token0 |-> token0[pair], token1 |-> token1[pair],
     address |-> pair,
     reserve0 |-> ch.reserves[pair][1], reserve1 |-> ch.reserves[pair][2],
     kappa |-> 2 * Q64, lambda |-> 0, fee |-> 0,
     token0Decimals |-> DECIMALS, token1Decimals |-> DECIMALS,
     price0 |-> 0, price1 |-> 0,
     updateFee |-> 0, updateFeedData |-> "0x"]

(* The provider as constructed, and a factory without pairs. *)
BrownFiV2PoolProvider ==
    [pools |-> [pair \in PairAddresses |-> undefined],
     poolAddresses |-> <<>>,
     watching |-> FALSE,
     started |-> FALSE]

Factory ==
    [allPairs |-> <<>>,
     reserves |-> [pair \in PairAddresses |-> <<10, 15>>],
     logs |-> <<>>]

(* getAllPools: the state of every pair of the factory, each address       *)
(* appended to poolAddresses, and the block watcher installed.             *)
getAllPools(prov, ch) ==
    [pairs |-> [i \in 1 .. Len(ch.allPairs) |-> getPool(ch, ch.allPairs[i])],
     provider |-> [prov EXCEPT !.poolAddresses = @ \o ch.allPairs,
                               !.watching = TRUE]]

(* handleEvent of a PairCreated log: the pool map gets the new pair. *)
handlePairCreated(prov, ch, log) ==
    [prov EXCEPT !.pools[log.pair] = getPool(ch, log.pair)]

(* handleEvent of a Sync log: the reserves of a known pool. *)
handleSync(prov, log) ==
    IF prov.pools[log.address] = undefined THEN prov
    ELSE [prov EXCEPT !.pools[log.address].reserve0 = log.reserve0,
                      !.pools[log.address].reserve1 = log.reserve1]

handleEvent(prov, ch, log) ==
    CASE log.address = NoAddress -> prov
      [] log.eventName = "PairCreated" -> handlePairCreated(prov, ch, log)
      [] log.eventName = "Sync" -> handleSync(prov, log)
      [] OTHER -> prov

(* updatePoolUpdateFee: nothing for an unknown pool or for tokens without  *)
(* a price feed, else the oracle prices and the Pyth update fee and data.  *)
updatePoolUpdateFee(pools, poolAddress, prices) ==
    IF pools[poolAddress] = undefined THEN pools
    ELSE
    LET priceFeedIds ==
            {pools[poolAddress].token0, pools[poolAddress].token1}
                \cap PRICE_FEED_IDS
    IN  IF priceFeedIds = {} THEN pools
        ELSE [pools EXCEPT ![poolAddress].price0 = prices[1],
                           ![poolAddress].price1 = prices[2],
                           ![poolAddress].updateFee = Cardinality(priceFeedIds),
                           ![poolAddress].updateFeedData = "0x..."]

(* The watcher's loop `for (const pool of this.poolAddresses)'. *)
RECURSIVE onBlockNumber(_, _, _)
onBlockNumber(pools, addresses, priceOf) ==
    IF addresses = <<>> THEN pools
    ELSE onBlockNumber(
             updatePoolUpdateFee(pools, Head(addresses),
                                 priceOf[Head(addresses)]),
             Tail(addresses), priceOf)

---------------------------------------------------------------------------
Idle == [op |-> "idle"]

Init ==
    /\ pool \in PoolsV1 \cup PoolsV2
    /\ call = Idle
    /\ provider = BrownFiV2PoolProvider
    /\ chain = Factory

---------------------------------------------------------------------------
(* One action per quote function. *)

V1SwapExactInput ==
    /\ pool.variant = "V1"
    /\ call = Idle
    /\ \E zeroToOne \in Directions, amountIn \in Amounts :
         call' = [op |-> "V1.swapExactInput", zeroToOne |-> zeroToOne,
                  amount |-> amountIn,
                  res |-> BrownFiPoolMath_swapExactInput(pool, zeroToOne, amountIn)]
    /\ UNCHANGED <<pool, provider, chain>>

V1SwapExactOutput ==
    /\ pool.variant = "V1"
    /\ call = Idle
    /\ \E zeroToOne \in Directions, amountOut \in Amounts :
         call' = [op |-> "V1.swapExactOutput", zeroToOne |-> zeroToOne,
                  amount |-> amountOut,
                  res |-> BrownFiPoolMath_swapExactOutput(pool, zeroToOne, amountOut)]
    /\ UNCHANGED <<pool, provider, chain>>

V2SwapExactInput ==
    /\ pool.variant = "V2"
    /\ call = Idle
    /\ \E zeroToOne \in Directions, amountIn \in Amounts :
         call' = [op |-> "V2.swapExactInput", zeroToOne |-> zeroToOne,
                  amount |-> amountIn,
                  res |-> BrownFiV2PoolMath_swapExactInput(pool, zeroToOne, amountIn)]
    /\ UNCHANGED <<pool, provider, chain>>

V2SwapExactOutput ==
    /\ pool.variant = "V2"
    /\ call = Idle
    /\ \E zeroToOne \in Directions, amountOut \in Amounts :
         call' = [op |-> "V2.swapExactOutput", zeroToOne |-> zeroToOne,
                  amount |-> amountOut,
                  res |-> BrownFiV2PoolMath_swapExactOutput(pool, zeroToOne, amountOut)]
    /\ UNCHANGED <<pool, provider, chain>>

V2SpotPriceWithoutFee ==
    /\ pool.variant = "V2"
    /\ call = Idle
    /\ \E zeroToOne \in Directions :
         call' = [op |-> "V2.spotPriceWithoutFee", zeroToOne |-> zeroToOne,
                  res |-> BrownFiV2PoolMath_spotPriceWithoutFee(pool, zeroToOne)]
    /\ UNCHANGED <<pool, provider, chain>>

Next ==
    \/ V1SwapExactInput
    \/ V1SwapExactOutput
    \/ V2SwapExactInput
    \/ V2SwapExactOutput
    \/ V2SpotPriceWithoutFee

Spec == Init /\ [][Next]_vars

---------------------------------------------------------------------------
(* The private helpers of BrownFiV2PoolMath, applied on their own: the     *)
(* Newton loop of sqrt one iteration per step, and the two decimal         *)
(* conversions one after the other.  The pool snapshot plays no part; it   *)
(* is the pool of the unit tests, at the model's bases.                    *)

ReferencePoolV2 ==
    [variant |-> "V2",
     reserve0 |-> MaxReserve \div 2, reserve1 |-> MaxReserve,
     kappa |-> 2 * Q64, lambda |-> 0, fee |-> PRECISION \div 400,
     token0Decimals |-> DECIMALS, token1Decimals |-> DECIMALS,
     price0 |-> 2 * Q64, price1 |-> Q64]

SqrtValues == 0 .. MaxSqrtValue
RawAmounts == 0 .. MaxRawAmount
DecimalCounts == (DECIMALS - DecimalsSpread) .. (DECIMALS + DecimalsSpread)

InitMath ==
    /\ pool = ReferencePoolV2
    /\ call = Idle
    /\ provider = BrownFiV2PoolProvider
    /\ chain = Factory

(* sqrt entered: `if (value === 0n) return 0n', else x and y initialised. *)
SqrtCall ==
    /\ call = Idle
    /\ \E value \in SqrtValues :
         call' = IF value = 0
                 THEN [op |-> "sqrt", value |-> value, x |-> 0, y |-> 0,
                       pc |-> "done", iterations |-> 0]
                 ELSE [op |-> "sqrt", value |-> value, x |-> value,
                       y |-> bigDiv(value + 1, 2),
                       pc |-> "loop", iterations |-> 0]
    /\ UNCHANGED <<pool, provider, chain>>

(* One pass of the body of `while (y < x)'. *)
SqrtIterate ==
    /\ call.op = "sqrt"
    /\ call.pc = "loop"
    /\ call.y < call.x
    /\ call' = [call EXCEPT !.x = call.y,
                            !.y = sqrtNext(call.value, call.y),
                            !.iterations = @ + 1]
    /\ UNCHANGED <<pool, provider, chain>>

(* The loop condition fails: `return x'. *)
SqrtReturn ==
    /\ call.op = "sqrt"
    /\ call.pc = "loop"
    /\ ~(call.y < call.x)
    /\ call' = [call EXCEPT !.pc = "done"]
    /\ UNCHANGED <<pool, provider, chain>>

ParseRawToDefaultDecimals ==
    /\ call = Idle
    /\ \E tokenDecimals \in DecimalCounts, amount \in RawAmounts :
         call' = [op |-> "parseRawToDefaultDecimals",
                  tokenDecimals |-> tokenDecimals, amount |-> amount,
                  canonical |-> parseRawToDefaultDecimals(tokenDecimals, amount)]
    /\ UNCHANGED <<pool, provider, chain>>

(* The canonical amount of the previous conversion, converted back with    *)
(* the same decimal count.                                                 *)
ParseDefaultDecimalsToRaw ==
    /\ call.op = "parseRawToDefaultDecimals"
    /\ call' = [op |-> "parseDefaultDecimalsToRaw",
                tokenDecimals |-> call.tokenDecimals, amount |-> call.amount,
                canonical |-> call.canonical,
                raw |-> parseDefaultDecimalsToRaw(call.tokenDecimals,
                                                  call.canonical)]
    /\ UNCHANGED <<pool, provider, chain>>

NextMath ==
    \/ SqrtCall
    \/ SqrtIterate
    \/ SqrtReturn
    \/ ParseRawToDefaultDecimals
    \/ ParseDefaultDecimalsToRaw

SpecMath == InitMath /\ [][NextMath]_vars

(* A running loop keeps running: the code is synchronous. *)
SpecMathFair == SpecMath /\ WF_vars(SqrtIterate) /\ WF_vars(SqrtReturn)

---------------------------------------------------------------------------
(* The provider at work: the factory creates pairs and pairs report new    *)
(* reserves, each with an event log; start lists the pools once, and then  *)
(* logs are handled and the block watcher runs in any order.               *)

InitProvider ==
    /\ pool = ReferencePoolV2
    /\ call = Idle
    /\ provider = BrownFiV2PoolProvider
    /\ chain = Factory

(* The factory creates its next pair and emits PairCreated. *)
PairCreated ==
    /\ Len(chain.allPairs) < NumPairs
    /\ Len(chain.logs) < MaxLogs
    /\ LET pair == Len(chain.allPairs) + 1
       IN  chain' = [chain EXCEPT
                       !.allPairs = Append(@, pair),
                       !.logs = Append(@, [eventName |-> "PairCreated",
                                           address |-> FACTORY_V2_ADDRESS,
                                           pair |-> pair])]
    /\ UNCHANGED <<pool, call, provider>>

(* A pair's reserves change and it emits Sync. *)
Sync ==
    /\ Len(chain.logs) < MaxLogs
    /\ \E i \in 1 .. Len(chain.allPairs), r \in SyncReserves :
         /\ r # chain.reserves[chain.allPairs[i]]
         /\ chain' = [chain EXCEPT
                        !.reserves[chain.allPairs[i]] = r,
                        !.logs = Append(@, [eventName |-> "Sync",
                                            address |-> chain.allPairs[i],
                                            reserve0 |-> r[1],
                                            reserve1 |-> r[2]])]
    /\ UNCHANGED <<pool, call, provider>>

(* start: the pools getAllPools returns are stored under their addresses. *)
Start ==
    /\ ~provider.started
    /\ LET all == getAllPools(provider, chain)
       IN  provider' =
             [all.provider EXCEPT
                !.started = TRUE,
                !.pools = [pair \in PairAddresses |->
                             IF \E i \in 1 .. Len(all.pairs) :
                                    all.pairs[i].address = pair
                             THEN getPool(chain, pair)
                             ELSE provider.pools[pair]]]
    /\ UNCHANGED <<pool, call, chain>>

(* The oldest undelivered log goes through handleEvent. *)
HandleEvent ==
    /\ chain.logs # <<>>
    /\ provider' = handleEvent(provider, chain, Head(chain.logs))
    /\ chain' = [chain EXCEPT !.logs = Tail(@)]
    /\ UNCHANGED <<pool, call>>

(* A new block: the watcher refreshes every pool of poolAddresses. *)
OnBlockNumber ==
    /\ provider.watching
    /\ \E priceOf \in [PairAddresses -> OraclePrices] :
         provider' = [provider EXCEPT
                        !.pools = onBlockNumber(provider.pools,
                                                provider.poolAddresses,
                                                priceOf)]
    /\ UNCHANGED <<pool, call, chain>>

NextProvider ==
    \/ PairCreated
    \/ Sync
    \/ Start
    \/ HandleEvent
    \/ OnBlockNumber

SpecProvider == InitProvider /\ [][NextProvider]_vars

(* The provider is started, every log is delivered and blocks keep coming. *)
SpecProviderFair ==
    /\ SpecProvider
    /\ WF_vars(Start)
    /\ WF_vars(HandleEvent)
    /\ WF_vars(OnBlockNumber)

---------------------------------------------------------------------------
(* Properties of the quote functions, checked under Spec. *)

CeilDiv(a, b) == -((-a) \div b)

ReserveOutOf(p, zeroToOne) == IF zeroToOne THEN p.reserve1 ELSE p.reserve0
ReserveInOf(p, zeroToOne) == IF zeroToOne THEN p.reserve0 ELSE p.reserve1

IsV1Output == call.op = "V1.swapExactOutput"
IsV1Input == call.op = "V1.swapExactInput"
IsV2Output == call.op = "V2.swapExactOutput"
IsV2Input == call.op = "V2.swapExactInput"
IsV2Spot == call.op = "V2.spotPriceWithoutFee"
IsQuote == IsV1Output \/ IsV1Input \/ IsV2Output \/ IsV2Input

(* C1: a V1 quoteByOutput on a pool with both reserves > 0 and              *)
(* 0 <= fee < 10000, for an amountOut > 0, fails with                      *)
(* INSUFFICIENT_OUTPUT_AMOUNT whenever amountOutWithFee * 10 >=            *)
(* reserveOut * 9, where amountOutWithFee = ceil(amountOut * 10000 /       *)
(* (10000 - fee)); a call that returns has amountOutWithFee * 10 <         *)
(* reserveOut * 9 and a strictly positive divisor reserveOut -             *)
(* amountOutWithFee.                                                       *)
C1_V1CapRejects ==
    (/\ IsV1Output
     /\ pool.reserve0 > 0 /\ pool.reserve1 > 0
     /\ pool.fee >= 0 /\ pool.fee < 10000
     /\ call.amount > 0)
    => LET reserveOut == ReserveOutOf(pool, call.zeroToOne)
           withFee == CeilDiv(call.amount * 10000, 10000 - pool.fee)
       IN  /\ withFee * 10 >= reserveOut * 9
                => call.res.error = INSUFFICIENT_OUTPUT_AMOUNT_V1
           /\ call.res.error = NoError
                => /\ call.res.amountOutWithFee = withFee
                   /\ withFee * 10 < reserveOut * 9
                   /\ reserveOut - withFee > 0

(* A V1 quoteByOutput rejected at the cap itself: amountOutWithFee * 10 =  *)
(* reserveOut * 9, below the reserve.                                      *)
C1_Witness ==
    /\ IsV1Output
    /\ pool.reserve0 > 0 /\ pool.reserve1 > 0 /\ call.amount > 0
    /\ pool.fee > 0
    /\ CeilDiv(call.amount * 10000, 10000 - pool.fee) * 10
         = ReserveOutOf(pool, call.zeroToOne) * 9
    /\ call.res.error = INSUFFICIENT_OUTPUT_AMOUNT_V1

(* C2: a V2 quoteByOutput on a pool with reserveOut > 0, for an            *)
(* amountOut > 0 in native units, fails with MAX_80_PERCENT_OF_RESERVE     *)
(* whenever amountOut * 10 >= reserveOut * 8, in both directions; no such  *)
(* call returns a value.                                                   *)
C2_V2CapRejects ==
    (/\ IsV2Output
     /\ ReserveOutOf(pool, call.zeroToOne) > 0
     /\ call.amount > 0
     /\ call.amount * 10 >= ReserveOutOf(pool, call.zeroToOne) * 8)
    => call.res.error = MAX_80_PERCENT_OF_RESERVE

(* A V2 quoteByOutput rejected at exactly 80% of a reserve held with       *)
(* decimals other than 18.                                                 *)
C2_Witness ==
    /\ IsV2Output
    /\ ~call.zeroToOne
    /\ pool.token0Decimals # DECIMALS
    /\ call.amount > 0
    /\ call.amount * 10 = pool.reserve0 * 8
    /\ call.res.error = MAX_80_PERCENT_OF_RESERVE

HasZeroReserve == pool.reserve0 = 0 \/ pool.reserve1 = 0

IsLiquidityError ==
    call.res.error \in {INSUFFICIENT_LIQUIDITY_V1, INSUFFICIENT_LIQUIDITY_V2}

(* C3 as stated: on a pool with reserve0 = 0 or reserve1 = 0, quoteByInput *)
(* and quoteByOutput of both variants, in both directions, fail with the   *)
(* InsufficientLiquidity error for every positive amount.                  *)
C3_ZeroReserveUnswappable ==
    (IsQuote /\ HasZeroReserve /\ call.amount > 0) => IsLiquidityError

(* C3 amended: for every positive amount, V1 quoteByOutput fails with      *)
(* INSUFFICIENT_LIQUIDITY when either reserve is zero, and V2 quoteByInput *)
(* and quoteByOutput fail with INSUFFICIENT_LIQUIDITY when the reserve of  *)
(* the output token is zero; V1 quoteByInput returns the amount whatever   *)
(* the reserves, and V2 never reports a liquidity error for a zero reserve *)
(* of the input token alone.                                               *)
C3_OutputReserveUnswappable ==
    /\ (IsV1Output /\ HasZeroReserve /\ call.amount > 0)
         => call.res.error = INSUFFICIENT_LIQUIDITY_V1
    /\ ((IsV2Input \/ IsV2Output) /\ call.amount > 0
          /\ ReserveOutOf(pool, call.zeroToOne) = 0)
         => call.res.error = INSUFFICIENT_LIQUIDITY_V2
    /\ (IsV1Input /\ HasZeroReserve)
         => call.res.error = NoError /\ call.res.value = call.amount
    /\ ((IsV2Input \/ IsV2Output) /\ call.amount > 0
          /\ ReserveOutOf(pool, call.zeroToOne) > 0)
         => call.res.error # INSUFFICIENT_LIQUIDITY_V2

(* A V1 quoteByOutput refused for the zero reserve of its input token      *)
(* while the output reserve is funded.                                     *)
C3_Witness ==
    /\ IsV1Output
    /\ call.amount > 0
    /\ ReserveInOf(pool, call.zeroToOne) = 0
    /\ ReserveOutOf(pool, call.zeroToOne) > 0
    /\ call.res.error = INSUFFICIENT_LIQUIDITY_V1

(* The quote the last call's function gives for another amount on the     *)
(* same pool and direction.                                                *)
QuoteAt(amount) ==
    CASE IsV1Output ->
           BrownFiPoolMath_swapExactOutput(pool, call.zeroToOne, amount)
      [] IsV1Input ->
           BrownFiPoolMath_swapExactInput(pool, call.zeroToOne, amount)
      [] IsV2Output ->
           BrownFiV2PoolMath_swapExactOutput(pool, call.zeroToOne, amount)
      [] IsV2Input ->
           BrownFiV2PoolMath_swapExactInput(pool, call.zeroToOne, amount)

(* The valid amounts below the one of the last call. *)
SmallerValidAmounts ==
    {a \in Amounts : a < call.amount /\ QuoteAt(a).error = NoError}

(* C4 as stated: for a fixed pool and direction and two valid amounts      *)
(* a < b, quoteByOutput(a) < quoteByOutput(b) and quoteByInput(a) <=       *)
(* quoteByInput(b), for the V1 and the V2 formula.                         *)
C4_Monotone ==
    (IsQuote /\ call.res.error = NoError)
    => \A a \in SmallerValidAmounts :
         IF IsV1Output \/ IsV2Output
         THEN QuoteAt(a).value < call.res.value
         ELSE QuoteAt(a).value <= call.res.value

(* C4 amended: for a fixed pool and direction and two valid amounts a < b, *)
(* quoteByOutput(a) <= quoteByOutput(b) for the V1 and the V2 formula      *)
(* (weakly increasing: the integer rounding makes plateaus), and           *)
(* quoteByInput(a) <= quoteByInput(b) for V1 and for the V2                *)
(* constant-product case kappa = 2 * Q64.                                  *)
C4_WeaklyMonotone ==
    (/\ IsQuote
     /\ call.res.error = NoError
     /\ IsV2Input => pool.kappa = 2 * Q64)
    => \A a \in SmallerValidAmounts : QuoteAt(a).value <= call.res.value

(* A V2 quoteByOutput whose result equals the one of a smaller valid       *)
(* amount (a plateau) and exceeds the one of another.                      *)
C4_Witness ==
    /\ IsV2Output
    /\ call.res.error = NoError
    /\ \E a \in SmallerValidAmounts : QuoteAt(a).value = call.res.value
    /\ \E a \in SmallerValidAmounts : QuoteAt(a).value < call.res.value

(* Canonical-scale reserves and notional values of the two tokens, each    *)
(* reserve times the oracle price of the same token.                       *)
CanonicalScale(decimals, amount) ==
    IF decimals > 18
    THEN amount \div (10 ^ (decimals - 18))
    ELSE amount * (10 ^ (18 - decimals))

CanonReserve0 == CanonicalScale(pool.token0Decimals, pool.reserve0)
CanonReserve1 == CanonicalScale(pool.token1Decimals, pool.reserve1)
Notional0 == CanonReserve0 * pool.price0
Notional1 == CanonReserve1 * pool.price1

SkewMagnitude ==
    (Abs(Notional0 - Notional1) * pool.lambda) \div (Notional0 + Notional1)

(* The adjusted price of each token: the one with the larger-or-equal      *)
(* notional value discounted, the other at a premium.                      *)
Discounted(price) == (price * (Q64 - SkewMagnitude)) \div Q64
Premium(price) == (price * (Q64 + SkewMagnitude)) \div Q64

(* C5: with lambda # 0, in quoteByInput and quoteByOutput and for either   *)
(* direction, the notional values compared are reserve0 * price0 and       *)
(* reserve1 * price1 (canonical-scale reserves); the token with the        *)
(* larger-or-equal notional value has its price discounted by              *)
(* (Q64 - s) / Q64 and the other raised by (Q64 + s) / Q64, so a           *)
(* oneToZero quote uses the same adjusted pair, role-swapped, as a         *)
(* zeroToOne quote and as spotPrice.                                       *)
C5_SkewByOwnNotional ==
    (/\ (IsV2Input \/ IsV2Output)
     /\ pool.lambda # 0
     /\ call.res.error = NoError
     /\ Notional0 # Notional1)
    => LET adjusted0 == IF Notional0 > Notional1
                        THEN Discounted(pool.price0) ELSE Premium(pool.price0)
           adjusted1 == IF Notional0 > Notional1
                        THEN Premium(pool.price1) ELSE Discounted(pool.price1)
       IN  /\ call.res.priceIn = IF call.zeroToOne THEN adjusted0 ELSE adjusted1
           /\ call.res.priceOut = IF call.zeroToOne THEN adjusted1 ELSE adjusted0

(* C6: getSkewnessPrice returns (priceA, priceB) unchanged when            *)
(* lambda = 0, and, for every lambda, when the notional values             *)
(* reserveA * priceA and reserveB * priceB are equal with a positive sum.  *)
C6_SkewSymmetry ==
    IsV2Spot
    => /\ pool.lambda = 0
            => /\ call.res.error = NoError
               /\ call.res.price0 = pool.price0
               /\ call.res.price1 = pool.price1
       /\ (Notional0 = Notional1 /\ Notional0 + Notional1 > 0)
            => /\ call.res.error = NoError
               /\ call.res.price0 = pool.price0
               /\ call.res.price1 = pool.price1

(* getSkewnessPrice applied with lambda # 0 to balanced notional values of *)
(* unequal reserves and unequal prices.                                    *)
C6_Witness ==
    /\ IsV2Spot
    /\ pool.lambda # 0
    /\ pool.price0 # pool.price1
    /\ Notional0 = Notional1
    /\ Notional0 > 0
    /\ call.res.error = NoError
    /\ call.res.price0 = pool.price0

RECURSIVE Gcd(_, _)
Gcd(a, b) == IF b = 0 THEN a ELSE Gcd(b, a % b)

(* q = ceil(a * b / d), for d > 0. *)
IsCeilOf(q, a, b, d) == q * d >= a * b /\ (q - 1) * d < a * b

(* C9: in a V1 quoteByOutput that returns (reserves > 0, amountOut > 0,    *)
(* 0 <= fee < 10000, oraclePrice > 0, cap not hit) every division of steps *)
(* 3-7 is a ceiling, and the amountIn returned is at least the exact       *)
(* rational input A * (2*Q128 + kappa*A/(reserveOut - A)) / (2*oraclePrice)*)
(* for zeroToOne and A * oraclePrice * (2*Q128 + kappa*A/(reserveOut - A)) *)
(* / (2*Q128*Q128) for oneToZero, with A = amountOut*10000/(10000 - fee)   *)
(* taken exactly.  (A = n/d below, in lowest terms, and the inequality is  *)
(* cross-multiplied; a kappa of 0 stands for Q128.)                        *)
C9_V1NeverUnderCollects ==
    (IsV1Output /\ call.res.error = NoError)
    => LET reserveOut == ReserveOutOf(pool, call.zeroToOne)
           kappa == IF pool.kappa = 0 THEN Q128 ELSE pool.kappa
           price == pool.oraclePrice
           withFee == call.res.amountOutWithFee
           r == call.res.r
           avgPrice == call.res.avgPrice
           g == Gcd(10000, 10000 - pool.fee)
           n == call.amount * (10000 \div g)
           d == (10000 - pool.fee) \div g
           rest == reserveOut * d - n
           exactNum == 2 * Q128 * rest + kappa * n
       IN  /\ IsCeilOf(withFee, call.amount, 10000, 10000 - pool.fee)
           /\ IsCeilOf(r, kappa, withFee, reserveOut - withFee)
           /\ IF call.zeroToOne
              THEN IsCeilOf(avgPrice, 2 * Q128 + r, Q128, 2 * price)
              ELSE IsCeilOf(avgPrice, price, 2 * Q128 + r, 2 * Q128)
           /\ IsCeilOf(call.res.value, withFee, avgPrice, Q128)
           /\ rest > 0
           /\ IF call.zeroToOne
              THEN call.res.value * d * rest * 2 * price >= n * exactNum
              ELSE call.res.value * d * rest * 2 * Q128 * Q128
                     >= n * price * exactNum

(* A V1 quoteByOutput with a fee whose fee step and whose final step both  *)
(* rounded up: the amount collected is strictly above the exact input.     *)
C9_Witness ==
    /\ IsV1Output
    /\ call.res.error = NoError
    /\ pool.fee > 0
    /\ call.res.amountOutWithFee * (10000 - pool.fee) > call.amount * 10000
    /\ call.res.value * Q128 > call.res.amountOutWithFee * call.res.avgPrice
    /\ ~call.zeroToOne

(* C10: for a V2 pool with kappa = 2 * Q64, lambda = 0, both tokens at 18  *)
(* decimals, reserveOut > 0, positive prices, and an amountIn > 0,         *)
(* swapExactInput returns exactly floor(reserveOut * effIn * priceIn /     *)
(* (priceOut * reserveOut + effIn * priceIn)) with effIn =                 *)
(* floor(amountIn * PRECISION / (PRECISION + fee)) and (priceIn, priceOut, *)
(* reserveOut) selected by direction; the sqrt branch is not taken.        *)
C10_ConstantProduct ==
    (/\ IsV2Input
     /\ pool.kappa = 2 * Q64 /\ pool.lambda = 0
     /\ pool.token0Decimals = 18 /\ pool.token1Decimals = 18
     /\ ReserveOutOf(pool, call.zeroToOne) > 0
     /\ pool.price0 > 0 /\ pool.price1 > 0
     /\ call.amount > 0)
    => LET priceIn == IF call.zeroToOne THEN pool.price0 ELSE pool.price1
           priceOut == IF call.zeroToOne THEN pool.price1 ELSE pool.price0
           reserveOut == ReserveOutOf(pool, call.zeroToOne)
           effIn == (call.amount * PRECISION) \div (PRECISION + pool.fee)
       IN  /\ call.res.error = NoError
           /\ call.res.branch = "constantProduct"
           /\ call.res.value =
                (reserveOut * effIn * priceIn)
                    \div (priceOut * reserveOut + effIn * priceIn)

(* A constant-product quoteByInput, oneToZero, with a fee that took part   *)
(* of the input and a division that truncated.                             *)
C10_Witness ==
    /\ IsV2Input
    /\ pool.kappa = 2 * Q64 /\ pool.lambda = 0
    /\ pool.token0Decimals = 18 /\ pool.token1Decimals = 18
    /\ pool.price0 > pool.price1 /\ pool.price1 > 0
    /\ ~call.zeroToOne
    /\ pool.fee > 0
    /\ call.res.error = NoError
    /\ call.res.value > 0
    /\ LET effIn == (call.amount * PRECISION) \div (PRECISION + pool.fee)
       IN  /\ effIn < call.amount
           /\ (pool.reserve0 * effIn * pool.price1)
                 % (pool.price0 * pool.reserve0 + effIn * pool.price1) # 0

(* C11: a V2 quoteByOutput that passes validation (reserveOut > 0,         *)
(* amountOut > 0, amountOut * 10 < reserveOut * 8), whatever the token     *)
(* decimals, has a strictly positive canonical-scale divisor               *)
(* Q64 * (reserveOutCanon - amountOutCanon), so the price-impact step      *)
(* yields a value instead of an arithmetic error.                          *)
C11_PriceImpactDivisorPositive ==
    (/\ IsV2Output
     /\ ReserveOutOf(pool, call.zeroToOne) > 0
     /\ call.amount > 0
     /\ call.amount * 10 < ReserveOutOf(pool, call.zeroToOne) * 8)
    => LET decimalsOut == IF call.zeroToOne THEN pool.token1Decimals
                                            ELSE pool.token0Decimals
           reserveOutCanon ==
               CanonicalScale(decimalsOut, ReserveOutOf(pool, call.zeroToOne))
           amountOutCanon == CanonicalScale(decimalsOut, call.amount)
       IN  /\ Q64 * (reserveOutCanon - amountOutCanon) > 0
           /\ ~(call.res.error = DIVISION_BY_ZERO
                  /\ call.res.branch = "priceImpact")

(* C12: a V2 quoteByInput on a pool with reserveOut > 0, positive oracle   *)
(* prices, 0 < kappa <= 2 * Q64, 0 <= lambda <= Q64 and fee >= 0, asked    *)
(* for amountIn > 0, returns, whenever it returns, an amountOut with       *)
(* 0 <= amountOut < reserveOut, in both branches and both directions.      *)
C12_OutputInsidePool ==
    (/\ IsV2Input
     /\ ReserveOutOf(pool, call.zeroToOne) > 0
     /\ pool.price0 > 0 /\ pool.price1 > 0
     /\ 0 < pool.kappa /\ pool.kappa <= 2 * Q64
     /\ 0 <= pool.lambda /\ pool.lambda <= Q64
     /\ pool.fee >= 0
     /\ call.amount > 0
     /\ call.res.error = NoError)
    => /\ 0 <= call.res.value
       /\ call.res.value < ReserveOutOf(pool, call.zeroToOne)

(* C13: on a V2 pool with 18-decimal tokens, positive prices,              *)
(* 0 < kappa <= 2 * Q64, lambda = 0 and fee >= 0, if quoteByOutput of an   *)
(* amountOut x > 0 within the 80% cap returns y > 0, then quoteByInput of  *)
(* y in the same direction returns at most x.                              *)
V2RoundTrip == BrownFiV2PoolMath_swapExactInput(pool, call.zeroToOne,
                                                call.res.value)

C13_Precondition ==
    /\ IsV2Output
    /\ pool.token0Decimals = DECIMALS /\ pool.token1Decimals = DECIMALS
    /\ pool.price0 > 0 /\ pool.price1 > 0
    /\ 0 < pool.kappa /\ pool.kappa <= 2 * Q64
    /\ pool.lambda = 0
    /\ pool.fee >= 0
    /\ call.amount > 0
    /\ call.res.error = NoError
    /\ call.res.value > 0

C13_RoundTrip ==
    C13_Precondition
    => /\ V2RoundTrip.error = NoError
       /\ V2RoundTrip.value <= call.amount

---------------------------------------------------------------------------
(* Properties of the helpers, checked under SpecMath and SpecMathFair. *)

IsRoundTrip == call.op = "parseDefaultDecimalsToRaw"
IsSqrt == call.op = "sqrt"

(* C7: for an amount x >= 0 and token decimals d,                          *)
(* parseDefaultDecimalsToRaw(d, parseRawToDefaultDecimals(d, x)) = x when  *)
(* d <= 18; when d > 18 the result r has r <= x and                        *)
(* x - r <= 10^(d-18) - 1.                                                 *)
C7_DecimalsRoundTrip ==
    IsRoundTrip
    => IF call.tokenDecimals <= 18
       THEN call.raw = call.amount
       ELSE /\ call.raw <= call.amount
            /\ call.amount - call.raw <= 10 ^ (call.tokenDecimals - 18) - 1

(* A round trip through more than 18 decimals that loses the most it can,  *)
(* 10^(d-18) - 1.                                                          *)
C7_Witness ==
    /\ IsRoundTrip
    /\ call.tokenDecimals > 18
    /\ call.amount - call.raw = 10 ^ (call.tokenDecimals - 18) - 1
    /\ call.raw > 0

(* C8: for every v >= 0 the Newton loop of sqrt(v) terminates, x is        *)
(* strictly smaller after every iteration, and the value returned is r     *)
(* with r * r <= v < (r + 1) * (r + 1).                                    *)
C8_SqrtFloor ==
    /\ [](IsSqrt /\ call.pc = "done"
            => /\ call.x * call.x <= call.value
               /\ call.value < (call.x + 1) * (call.x + 1))
    /\ [][(IsSqrt /\ call.pc = "loop" /\ call'.pc = "loop")
            => (call'.x < call.x /\ call'.x >= 1)]_vars
    /\ (IsSqrt ~> (IsSqrt /\ call.pc = "done"))

(* sqrt returned the root of a value that is no perfect square, after      *)
(* several iterations.                                                     *)
C8_Witness ==
    /\ IsSqrt
    /\ call.pc = "done"
    /\ call.iterations >= 4
    /\ call.x * call.x < call.value

---------------------------------------------------------------------------
(* Properties of the provider, checked under SpecProviderFair. *)

InPoolMap(pair) == provider.pools[pair] # undefined
InPoolAddresses(pair) ==
    \E i \in 1 .. Len(provider.poolAddresses) :
        provider.poolAddresses[i] = pair
HasPriceFeed(pair) == {token0[pair], token1[pair]} \cap PRICE_FEED_IDS # {}
HasOraclePrices(pair) ==
    /\ InPoolMap(pair)
    /\ <<provider.pools[pair].price0, provider.pools[pair].price1>>
           \in OraclePrices

(* C14: once getAllPools has installed the block watcher, every pool in    *)
(* the provider's pool map, also one added by a PairCreated event through  *)
(* handleEvent, is in poolAddresses, and (its tokens having a price feed)  *)
(* its price0 and price1, 0 after getPool, are eventually oracle prices.   *)
C14_PriceRefreshCoverage ==
    /\ [](provider.watching
            => \A pair \in PairAddresses :
                   InPoolMap(pair) => InPoolAddresses(pair))
    /\ \A pair \in PairAddresses :
           (provider.watching /\ InPoolMap(pair) /\ HasPriceFeed(pair))
               ~> HasOraclePrices(pair)

===========================================================================
